---- MODULE Spec2Model ----
(***************************************************************************)
(* Model of the OIDC single sign-on connector                              *)
(* (packages/core/src/sso/OidcConnector/index.ts).                         *)
(*                                                                         *)
(* One OidcConnector instance holds an immutable static config.  Callers   *)
(* invoke getAuthorizationUrl and getUserInfo; both are async functions,   *)
(* so every `await` is a suspension point where other invocations may run. *)
(* An invocation is a frame inv[i] with a program counter naming the       *)
(* promise it is suspended on.  The collaborators imported from ./utils.js *)
(* (fetchOidcConfig, fetchToken, getIdTokenClaims), generateStandardId and *)
(* the injected setSession callback are the environment.                   *)
(***************************************************************************)
EXTENDS Integers, Sequences, FiniteSets, TLC

VARIABLES
    config,   \* OidcConnector.config (private readonly), set by the constructor
    inv,      \* the invocation frames, one per call of a connector method
    store,    \* the external session storage: the sessions setSession wrote, in order
    nextId    \* the supply generateStandardId() draws from

vars == <<config, inv, store, nextId>>

(***************************************************************************)
(* Bounds                                                                  *)
(***************************************************************************)
\* Number of method invocations a behaviour holds.
MaxOps == 2

Ops == 1..MaxOps

(***************************************************************************)
(* JavaScript objects: functions from keys to values; a key that is absent *)
(* is outside the DOMAIN.                                                  *)
(***************************************************************************)
EmptyObject == [k \in {} |-> ""]

\* { ...a, ...b }: the keys of both, b's value where both have the key.
Spread(a, b) ==
    [k \in (DOMAIN a) \cup (DOMAIN b) |-> IF k \in DOMAIN b THEN b[k] ELSE a[k]]

Has(o, k) == k \in DOMAIN o

\* Truthiness of an optional string / boolean property.
TruthyString(o, k) == Has(o, k) /\ o[k] # ""
TruthyBoolean(o, k) == Has(o, k) /\ o[k] = TRUE

\* conditional(value) of @silverhand/essentials: the value when truthy, else
\* undefined (and spreading undefined adds no key).
conditional(truthy, value) == IF truthy THEN value ELSE EmptyObject

(***************************************************************************)
(* The static connector config and the provider's discovery documents      *)
(***************************************************************************)
\* BasicOidcConnectorConfig values the constructor may be given.  The second
\* one also names endpoints, so that static and discovered endpoints meet.
StaticConfigs ==
    { [clientId |-> "c1", clientSecret |-> "secret", issuer |-> "iss1",
       scope |-> "openid"],
      [clientId |-> "c1", clientSecret |-> "secret", issuer |-> "iss1",
       scope |-> "openid",
       authorizationEndpoint |-> "authS", tokenEndpoint |-> "tokS"] }

\* What fetchOidcConfig(issuer) resolves with: the provider's metadata with
\* camel-cased keys.  Every document carries the required endpoints; the
\* second one also publishes an issuer and a scope of its own.
DiscoveryDocs ==
    { [authorizationEndpoint |-> "authA", tokenEndpoint |-> "tokA",
       jwksUri |-> "jwksA"],
      [authorizationEndpoint |-> "authB", tokenEndpoint |-> "tokB",
       jwksUri |-> "jwksB", issuer |-> "iss2", scope |-> "scopeD"] }

EndpointKeys == {"authorizationEndpoint", "tokenEndpoint", "jwksUri"}

\* Variant: the spread written the other way round, { ...oidcConfig, ...this.config }.
mergeOidcConfig_staticWins(staticConfig, oidcConfig) ==
    Spread(oidcConfig, staticConfig)

\* The object getOidcConfig returns: { ...this.config, ...oidcConfig }.
mergeOidcConfig(staticConfig, oidcConfig) == Spread(staticConfig, oidcConfig)

(***************************************************************************)
(* Caller inputs                                                           *)
(***************************************************************************)
States == {"st1"}
RedirectUris == {"cb1", "cb2"}
ConnectorIds == {"conn1"}

\* The raw callback payload (`data: unknown`): whatever the browser sent back.
Payloads == [code : {"code1"}, redirectUri : RedirectUris]

NoSession == [nonce |-> "", redirectUri |-> "", connectorId |-> "", state |-> ""]
NoPayload == [code |-> "", redirectUri |-> ""]

\* Variant: state and redirectUri stored under each other's key.
sessionData_swapped(nonce, redirectUri, connectorId, state) ==
    [nonce |-> nonce, redirectUri |-> state,
     connectorId |-> connectorId, state |-> redirectUri]

\* The argument of setSession: { nonce, redirectUri, connectorId, state }.
sessionData(nonce, redirectUri, connectorId, state) ==
    [nonce |-> nonce, redirectUri |-> redirectUri,
     connectorId |-> connectorId, state |-> state]

(***************************************************************************)
(* snakecaseKeys and the query parameters.  A property name is a sequence  *)
(* of characters; an object with ordered keys is a sequence of             *)
(* <<name, value>> pairs.                                                  *)
(***************************************************************************)
UpperCase == <<"A","B","C","D","E","F","G","H","I","J","K","L","M",
               "N","O","P","Q","R","S","T","U","V","W","X","Y","Z">>
LowerCase == <<"a","b","c","d","e","f","g","h","i","j","k","l","m",
               "n","o","p","q","r","s","t","u","v","w","x","y","z">>

IsUpper(ch) == \E n \in DOMAIN UpperCase : UpperCase[n] = ch
ToLower(ch) ==
    IF IsUpper(ch)
    THEN LowerCase[CHOOSE n \in DOMAIN UpperCase : UpperCase[n] = ch]
    ELSE ch

\* snake case of a camel-cased name: an upper-case letter starts a new word.
RECURSIVE snakeCase(_)
snakeCase(name) ==
    IF name = <<>> THEN <<>>
    ELSE LET n == Len(name)
             init == snakeCase(SubSeq(name, 1, n - 1))
             ch == name[n]
         IN  IF IsUpper(ch) /\ n > 1
             THEN init \o <<"_", ToLower(ch)>>
             ELSE Append(init, ToLower(ch))

\* Variant: the keys passed through as they are.
snakecaseKeys_identity(object) == object

\* snakecaseKeys(object): every key snake-cased, values kept.
snakecaseKeys(object) ==
    [n \in DOMAIN object |-> <<snakeCase(object[n][1]), object[n][2]>>]

\* Setting a key of an ordered object: an existing key keeps its place.
SetKey(object, key, value) ==
    IF \E n \in DOMAIN object : object[n][1] = key
    THEN [n \in DOMAIN object |->
            IF object[n][1] = key THEN <<key, value>> ELSE object[n]]
    ELSE Append(object, <<key, value>>)

RECURSIVE SpreadInto(_, _)
SpreadInto(object, more) ==
    IF more = <<>> THEN object
    ELSE SpreadInto(SetKey(object, more[1][1], more[1][2]), Tail(more))

K_state == <<"s","t","a","t","e">>
K_nonce == <<"n","o","n","c","e">>
K_scope == <<"s","c","o","p","e">>
K_clientId == <<"c","l","i","e","n","t","I","d">>
K_responseType == <<"r","e","s","p","o","n","s","e","T","y","p","e">>
K_redirectUri == <<"r","e","d","i","r","e","c","t","U","r","i">>

\* new URLSearchParams({ state, nonce, ...snakecaseKeys({ clientId,
\* responseType: 'code', redirectUri }), scope }): the entries in key order.
queryParameters(state, nonce, oidcConfig, redirectUri) ==
    SetKey(
      SpreadInto(
        <<<<K_state, state>>, <<K_nonce, nonce>>>>,
        snakecaseKeys(<<<<K_clientId, oidcConfig.clientId>>,
                        <<K_responseType, "code">>,
                        <<K_redirectUri, redirectUri>>>>)),
      K_scope, oidcConfig.scope)

\* `${oidcConfig.authorizationEndpoint}?${queryParameters.toString()}`
authorizationUrl(oidcConfig, parameters) ==
    [endpoint |-> oidcConfig.authorizationEndpoint, query |-> parameters]

(***************************************************************************)
(* generateStandardId (@logto/shared): a random id.  The supply hands out  *)
(* a value it has not handed out before.                                   *)
(***************************************************************************)
generateStandardId(supply) == ToString(supply)

\* Variant: one id drawn once and used by every call.
generateNonce_reused(supply) == generateStandardId(1)

\* const nonce = generateStandardId();
generateNonce(supply) == generateStandardId(supply)

(***************************************************************************)
(* Identity tokens and their validation (./utils.js getIdTokenClaims)      *)
(***************************************************************************)
\* Claim sets the tokens of the protocol specification carry.
SomeClaims ==
    { [sub |-> "u1", name |-> "Ann", picture |-> "pic", email |-> "a@b.com",
       email_verified |-> TRUE, phone |-> "555", phone_verified |-> TRUE],
      [sub |-> "u2", email |-> "x@y.com", email_verified |-> FALSE] }

NoClaims == [sub |-> ""]

Issuers == {"iss1", "iss2"}
Audiences == { {"c1"}, {"other"} }

\* An identity token as the validator sees it: whether its signature verifies
\* against the provider's keys, its iss, aud and nonce claims, whether its
\* expiration lies in the past, and the profile claims.
IdTokens(nonces, claimSets) ==
    [sigOk : BOOLEAN, iss : Issuers, aud : Audiences, expired : BOOLEAN,
     nonce : nonces, claims : claimSets]

NoToken ==
    [sigOk |-> FALSE, iss |-> "", aud |-> {}, expired |-> FALSE, nonce |-> "",
     claims |-> NoClaims]

Rejected(code) == [ok |-> FALSE, code |-> code]
Resolved(value) == [ok |-> TRUE, value |-> value]

\* getIdTokenClaims(idToken, oidcConfig, nonce): signature, issuer, audience,
\* expiration, nonce, in this order; the decoded claims when all pass.
getIdTokenClaims(idToken, oidcConfig, nonce) ==
    IF ~idToken.sigOk THEN Rejected("InvalidIdToken")
    ELSE IF idToken.iss # oidcConfig.issuer THEN Rejected("InvalidIdToken")
    ELSE IF oidcConfig.clientId \notin idToken.aud THEN Rejected("InvalidIdToken")
    ELSE IF idToken.expired THEN Rejected("InvalidIdToken")
    ELSE IF idToken.nonce # nonce THEN Rejected("InvalidIdToken")
    ELSE Resolved(idToken.claims)

(***************************************************************************)
(* getUserInfo's own computations                                          *)
(***************************************************************************)
\* Variant: the redirectUri read from the callback payload.
fetchTokenCall_payloadUri(oidcConfig, data, connectorSession) ==
    [tokenEndpoint |-> oidcConfig.tokenEndpoint, data |-> data,
     redirectUri |-> data.redirectUri]

\* fetchToken(oidcConfig, data, redirectUri): the exchange request sent to the
\* token endpoint, with the redirectUri taken from the connector session.
fetchTokenCall(oidcConfig, data, connectorSession) ==
    [tokenEndpoint |-> oidcConfig.tokenEndpoint, data |-> data,
     redirectUri |-> connectorSession.redirectUri]

\* Variant: the token checked against the nonce it carries itself.
idTokenClaimsCall_tokenNonce(idToken, oidcConfig, connectorSession) ==
    getIdTokenClaims(idToken, oidcConfig, idToken.nonce)

\* getIdTokenClaims(idToken, oidcConfig, nonce), with the nonce taken from the
\* connector session.
idTokenClaimsCall(idToken, oidcConfig, connectorSession) ==
    getIdTokenClaims(idToken, oidcConfig, connectorSession.nonce)

\* Variant: email and phone forwarded without looking at the verified flags.
userInfo_unverified(claims) ==
    Spread(Spread(Spread(Spread(
        [id |-> claims.sub],
        conditional(TruthyString(claims, "name"),
                    [name |-> claims.name])),
        conditional(TruthyString(claims, "picture"),
                    [avatar |-> claims.picture])),
        conditional(TruthyString(claims, "email"),
                    [email |-> claims.email])),
        conditional(TruthyString(claims, "phone"),
                    [phone |-> claims.phone]))

\* Variant: a claim the mapping does not name is forwarded as well.
userInfo_forwarding(claims) ==
    Spread(Spread(Spread(Spread(Spread(
        [id |-> claims.sub],
        conditional(TruthyString(claims, "name"),
                    [name |-> claims.name])),
        conditional(TruthyString(claims, "picture"),
                    [avatar |-> claims.picture])),
        conditional(TruthyString(claims, "email")
                      /\ TruthyBoolean(claims, "email_verified"),
                    [email |-> claims.email])),
        conditional(TruthyString(claims, "phone")
                      /\ TruthyBoolean(claims, "phone_verified"),
                    [phone |-> claims.phone])),
        conditional(TruthyString(claims, "locale"),
                    [locale |-> claims.locale]))

\* Variant: the name guarded by email_verified, the picture forwarded whenever
\* the claim is present.
userInfo_nameVerified(claims) ==
    Spread(Spread(Spread(Spread(
        [id |-> claims.sub],
        conditional(TruthyString(claims, "name")
                      /\ TruthyBoolean(claims, "email_verified"),
                    [name |-> claims.name])),
        conditional(Has(claims, "picture"),
                    [avatar |-> claims.picture])),
        conditional(TruthyString(claims, "email")
                      /\ TruthyBoolean(claims, "email_verified"),
                    [email |-> claims.email])),
        conditional(TruthyString(claims, "phone")
                      /\ TruthyBoolean(claims, "phone_verified"),
                    [phone |-> claims.phone]))

\* The object getUserInfo returns from the verified claims.
userInfo(claims) ==
    Spread(Spread(Spread(Spread(
        [id |-> claims.sub],
        conditional(TruthyString(claims, "name"),
                    [name |-> claims.name])),
        conditional(TruthyString(claims, "picture"),
                    [avatar |-> claims.picture])),
        conditional(TruthyString(claims, "email")
                      /\ TruthyBoolean(claims, "email_verified"),
                    [email |-> claims.email])),
        conditional(TruthyString(claims, "phone")
                      /\ TruthyBoolean(claims, "phone_verified"),
                    [phone |-> claims.phone]))

\* How an invocation ends: a value it returns, or an error it throws.
Pending == [type |-> "pending"]
Throws(code) == [type |-> "error", code |-> code]
ReturnsUrl(url) == [type |-> "url", url |-> url]
ReturnsUserInfo(info) == [type |-> "userInfo", userInfo |-> info]

\* Variant: a rejected validation caught and answered with the unverified
\* subject-less user info.
userInfoResult_swallowed(validation) ==
    IF validation.ok
    THEN ReturnsUserInfo(userInfo(validation.value))
    ELSE ReturnsUserInfo([id |-> ""])

\* await getIdTokenClaims(...) followed by the return statement: a rejection
\* propagates to the caller, a resolution is mapped to the user info.
userInfoResult(validation) ==
    IF validation.ok
    THEN ReturnsUserInfo(userInfo(validation.value))
    ELSE Throws(validation.code)

\* Variant: the assertion left out.
assertSetSession_missing(setSession) == TRUE

\* assert(setSession, new ConnectorError(NotImplemented)): passes iff the
\* callback was given.
assertSetSession(setSession) == setSession

(***************************************************************************)
(* Invocation frames                                                       *)
(***************************************************************************)
\* pc names the promise the invocation is suspended on:
\*   "getOidcConfig", "setSession", "fetchToken", "getIdTokenClaims",
\* or "idle" (not called yet) and "done" (settled, see result).
\* discovered is what fetchOidcConfig resolved with inside getOidcConfig.
\* fetches, sessionCalls, tokenRequests and validations record the calls the
\* invocation has made to its collaborators.
\* replay records that, when getUserInfo was called, an earlier getUserInfo
\* invocation with the same connector session had already settled.
IdleFrame ==
    [method |-> "none", pc |-> "idle",
     state |-> "", redirectUri |-> "", connectorId |-> "", setSession |-> FALSE,
     connectorSession |-> NoSession, data |-> NoPayload,
     discovered |-> EmptyObject, oidcConfig |-> EmptyObject, nonce |-> "",
     idToken |-> NoToken,
     result |-> Pending,
     fetches |-> 0, sessionCalls |-> <<>>, tokenRequests |-> <<>>,
     validations |-> 0, replay |-> FALSE]

Range(seq) == { seq[n] : n \in DOMAIN seq }

\* Frames are taken in order: frame i is the i-th call made to the connector.
CanCall(i) ==
    /\ inv[i].pc = "idle"
    /\ IF i = 1 THEN TRUE ELSE inv[i - 1].pc # "idle"

IssuedNonces == { generateStandardId(k) : k \in 1..(nextId - 1) }

Init ==
    /\ config \in StaticConfigs
    /\ inv = [i \in Ops |-> IdleFrame]
    /\ store = <<>>
    /\ nextId = 1

\* The token invocation i expects from the exchange: signed by the provider,
\* issued by the resolved issuer for this client, not expired, carrying the
\* nonce of the session.
ExpectedToken(i, claims) ==
    [sigOk |-> TRUE, iss |-> inv[i].oidcConfig.issuer,
     aud |-> {inv[i].oidcConfig.clientId}, expired |-> FALSE,
     nonce |-> inv[i].connectorSession.nonce, claims |-> claims]

TokenFields == {"sigOk", "iss", "aud", "expired", "nonce"}

\* What the token endpoint may answer: the expected token, or a token that
\* differs from it in one of the validated fields (a forged signature, another
\* issuer or audience, an expired token, a token minted for another nonce).
ProviderTokens(i, claimSets) ==
    IF inv[i].pc # "fetchToken" THEN {}
    ELSE { t \in IdTokens(IssuedNonces \cup {"forged"}, claimSets) :
             \E f \in TokenFields :
                \A g \in TokenFields \ {f} :
                    t[g] = ExpectedToken(i, t.claims)[g] }

(***************************************************************************)
(* getOidcConfig                                                           *)
(***************************************************************************)
\* Variant: the config an earlier invocation resolved is kept by the
\* connector and returned again.
getOidcConfig_cached(doc) ==
    IF \E k \in Ops : DOMAIN inv[k].oidcConfig # {}
    THEN inv[CHOOSE k \in Ops : DOMAIN inv[k].oidcConfig # {}].oidcConfig
    ELSE mergeOidcConfig(config, doc)

\* What getOidcConfig() returns once its fetchOidcConfig(issuer) has resolved
\* with doc.
getOidcConfig(doc) == mergeOidcConfig(config, doc)

(***************************************************************************)
(* getAuthorizationUrl                                                     *)
(***************************************************************************)
\* The call, up to its first await: the assert, then getOidcConfig() starts
\* fetchOidcConfig(issuer).
getAuthorizationUrl(i, state, redirectUri, connectorId, setSession) ==
    /\ CanCall(i)
    /\ inv' = [inv EXCEPT ![i] =
         IF assertSetSession(setSession)
         THEN [@ EXCEPT !.method = "getAuthorizationUrl", !.pc = "getOidcConfig",
                        !.state = state, !.redirectUri = redirectUri,
                        !.connectorId = connectorId, !.setSession = setSession,
                        !.fetches = @ + 1]
         ELSE [@ EXCEPT !.method = "getAuthorizationUrl", !.pc = "done",
                        !.state = state, !.redirectUri = redirectUri,
                        !.connectorId = connectorId, !.setSession = setSession,
                        !.result = Throws("NotImplemented")]]
    /\ UNCHANGED <<config, store, nextId>>

\* Variant: the discovered values are assigned into this.config
\* (Object.assign(this.config, oidcConfig)) instead of a fresh object.
authorizationConfigResolved_assigning(i, doc) ==
    /\ inv[i].method = "getAuthorizationUrl"
    /\ inv[i].pc = "getOidcConfig"
    /\ LET nonce == generateNonce(nextId)
           session == sessionData(nonce, inv[i].redirectUri,
                                  inv[i].connectorId, inv[i].state)
       IN  inv' = [inv EXCEPT ![i] =
                     [@ EXCEPT !.discovered = doc,
                               !.oidcConfig = mergeOidcConfig(config, doc),
                               !.nonce = nonce,
                               !.sessionCalls = Append(@, session),
                               !.pc = "setSession"]]
    /\ config' = mergeOidcConfig(config, doc)
    /\ nextId' = nextId + 1
    /\ UNCHANGED store

\* fetchOidcConfig resolves: the config is merged, the nonce is generated and
\* setSession is called with the session data.
authorizationConfigResolved(i, doc) ==
    /\ inv[i].method = "getAuthorizationUrl"
    /\ inv[i].pc = "getOidcConfig"
    /\ LET nonce == generateNonce(nextId)
           session == sessionData(nonce, inv[i].redirectUri,
                                  inv[i].connectorId, inv[i].state)
       IN  inv' = [inv EXCEPT ![i] =
                     [@ EXCEPT !.discovered = doc,
                               !.oidcConfig = getOidcConfig(doc),
                               !.nonce = nonce,
                               !.sessionCalls = Append(@, session),
                               !.pc = "setSession"]]
    /\ nextId' = nextId + 1
    /\ UNCHANGED <<config, store>>

\* Variant: a rejected fetchOidcConfig is tried a second time before the
\* error is let through.
configRejected_retrying(i) ==
    /\ inv[i].pc = "getOidcConfig"
    /\ inv' = [inv EXCEPT ![i] =
                 IF inv[i].fetches < 2
                 THEN [@ EXCEPT !.fetches = @ + 1]
                 ELSE [@ EXCEPT !.pc = "done", !.result = Throws("InvalidConfig")]]
    /\ UNCHANGED <<config, store, nextId>>

\* fetchOidcConfig rejects (unreachable, malformed or incomplete document).
configRejected(i) ==
    /\ inv[i].pc = "getOidcConfig"
    /\ inv' = [inv EXCEPT ![i] =
                 [@ EXCEPT !.pc = "done", !.result = Throws("InvalidConfig")]]
    /\ UNCHANGED <<config, store, nextId>>

\* setSession resolves: the storage holds the session; the URL is built and
\* returned.
setSessionResolved(i) ==
    /\ inv[i].pc = "setSession"
    /\ store' = Append(store, inv[i].sessionCalls[Len(inv[i].sessionCalls)])
    /\ inv' = [inv EXCEPT ![i] =
         [@ EXCEPT !.pc = "done",
                   !.result = ReturnsUrl(authorizationUrl(
                       inv[i].oidcConfig,
                       queryParameters(inv[i].state, inv[i].nonce,
                                       inv[i].oidcConfig, inv[i].redirectUri)))]]
    /\ UNCHANGED <<config, nextId>>

\* setSession rejects: nothing was stored, the error reaches the caller.
setSessionRejected(i) ==
    /\ inv[i].pc = "setSession"
    /\ inv' = [inv EXCEPT ![i] =
                 [@ EXCEPT !.pc = "done", !.result = Throws("SessionStorageError")]]
    /\ UNCHANGED <<config, store, nextId>>

(***************************************************************************)
(* getUserInfo                                                             *)
(***************************************************************************)
\* Variant: the token exchange is started together with the discovery fetch,
\* against the token endpoint of the static config.
getUserInfo_parallel(i, connectorSession, data) ==
    /\ CanCall(i)
    /\ connectorSession \in Range(store)
    /\ inv' = [inv EXCEPT ![i] =
         [@ EXCEPT !.method = "getUserInfo", !.pc = "getOidcConfig",
                   !.connectorSession = connectorSession, !.data = data,
                   !.fetches = @ + 1,
                   !.tokenRequests = Append(@,
                       [tokenEndpoint |-> IF Has(config, "tokenEndpoint")
                                          THEN config.tokenEndpoint ELSE "",
                        data |-> data,
                        redirectUri |-> connectorSession.redirectUri]),
                   !.replay = \E k \in Ops :
                                 /\ inv[k].method = "getUserInfo"
                                 /\ inv[k].pc = "done"
                                 /\ inv[k].connectorSession = connectorSession]]
    /\ UNCHANGED <<config, store, nextId>>

\* The call, up to its first await.  The caller passes a session it read from
\* the storage and the callback payload.
getUserInfo(i, connectorSession, data) ==
    /\ CanCall(i)
    /\ connectorSession \in Range(store)
    /\ inv' = [inv EXCEPT ![i] =
         [@ EXCEPT !.method = "getUserInfo", !.pc = "getOidcConfig",
                   !.connectorSession = connectorSession, !.data = data,
                   !.fetches = @ + 1,
                   !.replay = \E k \in Ops :
                                 /\ inv[k].method = "getUserInfo"
                                 /\ inv[k].pc = "done"
                                 /\ inv[k].connectorSession = connectorSession]]
    /\ UNCHANGED <<config, store, nextId>>

\* fetchOidcConfig resolves: fetchToken(oidcConfig, data, redirectUri) is called.
userInfoConfigResolved(i, doc) ==
    /\ inv[i].method = "getUserInfo"
    /\ inv[i].pc = "getOidcConfig"
    /\ LET oidcConfig == getOidcConfig(doc)
       IN  inv' = [inv EXCEPT ![i] =
             [@ EXCEPT !.discovered = doc,
                       !.oidcConfig = oidcConfig,
                       !.nonce = inv[i].connectorSession.nonce,
                       !.tokenRequests = Append(@,
                           fetchTokenCall(oidcConfig, inv[i].data,
                                          inv[i].connectorSession)),
                       !.pc = "fetchToken"]]
    /\ UNCHANGED <<config, store, nextId>>

\* Variant: once the token is exchanged, the connector session is written back
\* to the storage.
fetchTokenResolved_storing(i, idToken) ==
    /\ inv[i].pc = "fetchToken"
    /\ inv' = [inv EXCEPT ![i] =
         [@ EXCEPT !.idToken = idToken,
                   !.validations = @ + 1,
                   !.pc = "getIdTokenClaims"]]
    /\ store' = Append(store, inv[i].connectorSession)
    /\ UNCHANGED <<config, nextId>>

\* fetchToken resolves with the provider's identity token;
\* getIdTokenClaims(idToken, oidcConfig, nonce) is called.
fetchTokenResolved(i, idToken) ==
    /\ inv[i].pc = "fetchToken"
    /\ inv' = [inv EXCEPT ![i] =
         [@ EXCEPT !.idToken = idToken,
                   !.validations = @ + 1,
                   !.pc = "getIdTokenClaims"]]
    /\ UNCHANGED <<config, store, nextId>>

\* Variant: a rejected exchange is sent a second time before the error is let
\* through.
fetchTokenRejected_retrying(i, code) ==
    /\ inv[i].pc = "fetchToken"
    /\ inv' = [inv EXCEPT ![i] =
         IF Len(inv[i].tokenRequests) < 2
         THEN [@ EXCEPT !.tokenRequests = Append(@, @[1])]
         ELSE [@ EXCEPT !.pc = "done", !.result = Throws(code)]]
    /\ UNCHANGED <<config, store, nextId>>

\* fetchToken rejects.
fetchTokenRejected(i, code) ==
    /\ inv[i].pc = "fetchToken"
    /\ inv' = [inv EXCEPT ![i] = [@ EXCEPT !.pc = "done", !.result = Throws(code)]]
    /\ UNCHANGED <<config, store, nextId>>

\* Variant: a connector that remembers the sessions it has seen and refuses a
\* session a second time.
idTokenClaimsSettled_once(i) ==
    /\ inv[i].pc = "getIdTokenClaims"
    /\ inv' = [inv EXCEPT ![i] =
         [@ EXCEPT !.pc = "done",
                   !.result =
                       IF inv[i].replay THEN Throws("InvalidIdToken")
                       ELSE userInfoResult(
                              idTokenClaimsCall(inv[i].idToken, inv[i].oidcConfig,
                                                inv[i].connectorSession))]]
    /\ UNCHANGED <<config, store, nextId>>

\* getIdTokenClaims settles; getUserInfo returns the user info or throws.
idTokenClaimsSettled(i) ==
    /\ inv[i].pc = "getIdTokenClaims"
    /\ inv' = [inv EXCEPT ![i] =
         [@ EXCEPT !.pc = "done",
                   !.result = userInfoResult(
                       idTokenClaimsCall(inv[i].idToken, inv[i].oidcConfig,
                                         inv[i].connectorSession))]]
    /\ UNCHANGED <<config, store, nextId>>

TokenErrors == {"InvalidAuthCode", "InvalidAccessToken"}

Next ==
    \/ \E i \in Ops, state \in States, redirectUri \in RedirectUris,
          connectorId \in ConnectorIds, setSession \in BOOLEAN :
          getAuthorizationUrl(i, state, redirectUri, connectorId, setSession)
    \/ \E i \in Ops, doc \in DiscoveryDocs : authorizationConfigResolved(i, doc)
    \/ \E i \in Ops : configRejected(i)
    \/ \E i \in Ops : setSessionResolved(i)
    \/ \E i \in Ops : setSessionRejected(i)
    \/ \E i \in Ops, connectorSession \in Range(store), data \in Payloads :
          getUserInfo(i, connectorSession, data)
    \/ \E i \in Ops, doc \in DiscoveryDocs : userInfoConfigResolved(i, doc)
    \/ \E i \in Ops : \E idToken \in ProviderTokens(i, SomeClaims) :
          fetchTokenResolved(i, idToken)
    \/ \E i \in Ops, code \in TokenErrors : fetchTokenRejected(i, code)
    \/ \E i \in Ops : idTokenClaimsSettled(i)

Spec == Init /\ [][Next]_vars

(***************************************************************************)
(* The claims mapping on its own: a getUserInfo invocation whose token has *)
(* been exchanged and carries any combination of the profile claims.       *)
(***************************************************************************)
Optional(key, values) ==
    {EmptyObject} \cup { [k \in {key} |-> v] : v \in values }

\* sub is required; every other claim may be absent, empty or set (the flags
\* absent, false or true); locale stands for a claim the mapping does not name.
AllClaims ==
    { Spread([sub |-> "u1"],
        Spread(n, Spread(p, Spread(e, Spread(ev, Spread(ph, Spread(pv, l))))))) :
        n \in Optional("name", {"", "Ann"}),
        p \in Optional("picture", {"", "pic"}),
        e \in Optional("email", {"", "a@b.com"}),
        ev \in Optional("email_verified", BOOLEAN),
        ph \in Optional("phone", {"", "555"}),
        pv \in Optional("phone_verified", BOOLEAN),
        l \in Optional("locale", {"en"}) }

\* Frame 1 is suspended on getIdTokenClaims with a token that will verify;
\* the session it was called with was stored by an earlier authorization.
InitClaims ==
    /\ config \in StaticConfigs
    /\ nextId = 2
    /\ \E doc \in DiscoveryDocs, data \in Payloads, claims \in AllClaims :
         LET session == sessionData(generateStandardId(1), "cb1", "conn1", "st1")
             oidcConfig == mergeOidcConfig(config, doc)
         IN  /\ store = <<session>>
             /\ inv = [i \in Ops |->
                  IF i # 1 THEN IdleFrame
                  ELSE [IdleFrame EXCEPT
                          !.method = "getUserInfo", !.pc = "getIdTokenClaims",
                          !.connectorSession = session, !.data = data,
                          !.discovered = doc, !.oidcConfig = oidcConfig,
                          !.nonce = session.nonce,
                          !.idToken = [sigOk |-> TRUE, iss |-> oidcConfig.issuer,
                                       aud |-> {oidcConfig.clientId},
                                       expired |-> FALSE, nonce |-> session.nonce,
                                       claims |-> claims],
                          !.fetches = 1,
                          !.tokenRequests =
                              <<fetchTokenCall(oidcConfig, data, session)>>,
                          !.validations = 1]]

NextClaims == \E i \in Ops : idTokenClaimsSettled(i)

SpecClaims == InitClaims /\ [][NextClaims]_vars

(***************************************************************************)
(* Callbacks on their own: the storage holds the session an earlier        *)
(* getAuthorizationUrl wrote, the caller has not deleted it, and every     *)
(* invocation is a getUserInfo with that session.                          *)
(***************************************************************************)
InitReplay ==
    /\ config \in StaticConfigs
    /\ nextId = 2
    /\ inv = [i \in Ops |-> IdleFrame]
    /\ store = <<sessionData(generateStandardId(1), "cb1", "conn1", "st1")>>

\* The user the provider authenticated in that flow, and the payload of the
\* redirect that came back to the session's redirectUri.
ReplayClaims == { claims \in SomeClaims : claims.sub = "u1" }
ReplayPayloads == { data \in Payloads : data.redirectUri = "cb1" }

NextReplay ==
    \/ \E i \in Ops, connectorSession \in Range(store), data \in ReplayPayloads :
          getUserInfo(i, connectorSession, data)
    \/ \E i \in Ops, doc \in DiscoveryDocs : userInfoConfigResolved(i, doc)
    \/ \E i \in Ops : configRejected(i)
    \/ \E i \in Ops : \E idToken \in ProviderTokens(i, ReplayClaims) :
          fetchTokenResolved(i, idToken)
    \/ \E i \in Ops, code \in TokenErrors : fetchTokenRejected(i, code)
    \/ \E i \in Ops : idTokenClaimsSettled(i)

SpecReplay == InitReplay /\ [][NextReplay]_vars

(***************************************************************************)
(* Flows side by side: while the callback of the stored session is being   *)
(* handled, other flows begin and their callbacks arrive.                  *)
(***************************************************************************)
\* The other flows are begun with a session storage and their own redirectUri.
FlowRedirectUris == RedirectUris \ {"cb1"}

NextFlows ==
    \/ \E i \in Ops, state \in States, redirectUri \in FlowRedirectUris,
          connectorId \in ConnectorIds :
          getAuthorizationUrl(i, state, redirectUri, connectorId, TRUE)
    \/ \E i \in Ops, doc \in DiscoveryDocs : authorizationConfigResolved(i, doc)
    \/ \E i \in Ops : configRejected(i)
    \/ \E i \in Ops : setSessionResolved(i)
    \/ \E i \in Ops : setSessionRejected(i)
    \/ \E i \in Ops, connectorSession \in Range(store), data \in ReplayPayloads :
          getUserInfo(i, connectorSession, data)
    \/ \E i \in Ops, doc \in DiscoveryDocs : userInfoConfigResolved(i, doc)
    \/ \E i \in Ops : \E idToken \in ProviderTokens(i, ReplayClaims) :
          fetchTokenResolved(i, idToken)
    \/ \E i \in Ops, code \in TokenErrors : fetchTokenRejected(i, code)
    \/ \E i \in Ops : idTokenClaimsSettled(i)

SpecFlows == InitReplay /\ [][NextFlows]_vars

(***************************************************************************)
(* Vocabulary of the properties                                            *)
(***************************************************************************)
AuthorizationFrames == { i \in Ops : inv[i].method = "getAuthorizationUrl" }
UserInfoFrames == { i \in Ops : inv[i].method = "getUserInfo" }

ReturnedUrl(i) == inv[i].result.type = "url"
ReturnedUserInfo(i) == inv[i].result.type = "userInfo"
Threw(i, code) == inv[i].result = Throws(code)

\* The frame has received an identity token from the exchange.
HasToken(i) == i \in UserInfoFrames /\ inv[i].validations > 0

\* The value of a query parameter, and the parameter names of a query.
Param(query, name) ==
    query[CHOOSE n \in DOMAIN query : query[n][1] = name][2]
ParamNames(query) == { query[n][1] : n \in DOMAIN query }

P_client_id == <<"c","l","i","e","n","t","_","i","d">>
P_response_type == <<"r","e","s","p","o","n","s","e","_","t","y","p","e">>
P_redirect_uri == <<"r","e","d","i","r","e","c","t","_","u","r","i">>

\* The session an authorization frame handed to setSession.
SessionOf(j) == inv[j].sessionCalls[1]

(***************************************************************************)
(* Properties                                                              *)
(***************************************************************************)
ConfigResolved(i) == DOMAIN inv[i].discovered # {}

\* C1: a getUserInfo invocation whose token carries a nonce other than the one
\* of the connector session it was called with ends with InvalidIdToken; and a
\* user info is only returned for a token whose nonce is the nonce that the
\* getAuthorizationUrl invocation which stored that session generated.
C1_NonceMismatchRejected ==
    \A i \in UserInfoFrames :
        /\ (HasToken(i) /\ inv[i].pc = "done"
              /\ inv[i].idToken.nonce # inv[i].connectorSession.nonce)
             => Threw(i, "InvalidIdToken")
        /\ ReturnedUserInfo(i) =>
             /\ inv[i].idToken.nonce = inv[i].connectorSession.nonce
             /\ \E j \in AuthorizationFrames :
                   /\ inv[j].sessionCalls # <<>>
                   /\ SessionOf(j) = inv[i].connectorSession
                   /\ inv[j].nonce = inv[i].idToken.nonce

\* A token valid in signature, issuer, audience and expiration, with a foreign
\* nonce, has been rejected.
C1_Witness ==
    \E i \in UserInfoFrames :
        /\ HasToken(i) /\ inv[i].pc = "done"
        /\ inv[i].idToken.sigOk
        /\ inv[i].idToken.iss = inv[i].oidcConfig.issuer
        /\ inv[i].oidcConfig.clientId \in inv[i].idToken.aud
        /\ ~inv[i].idToken.expired
        /\ inv[i].idToken.nonce # inv[i].connectorSession.nonce
        /\ Threw(i, "InvalidIdToken")

\* C2: getAuthorizationUrl called without setSession has thrown NotImplemented
\* without fetching the discovery document, generating a nonce or calling the
\* storage, and returns no URL; every stored session comes from a call that
\* was given the callback.
C2_NoSessionStorageNotImplemented ==
    /\ \A i \in AuthorizationFrames :
          ~inv[i].setSession =>
             /\ inv[i].pc = "done"
             /\ Threw(i, "NotImplemented")
             /\ inv[i].fetches = 0
             /\ inv[i].nonce = ""
             /\ inv[i].sessionCalls = <<>>
    /\ \A n \in DOMAIN store :
          \E j \in AuthorizationFrames :
             /\ inv[j].setSession
             /\ inv[j].sessionCalls # <<>>
             /\ SessionOf(j) = store[n]

C2_Witness ==
    \E i \in AuthorizationFrames :
        ~inv[i].setSession /\ Threw(i, "NotImplemented")

\* C3 as stated: a non-endpoint field that the static config and the discovery
\* document both specify resolves to the static value, an endpoint field to the
\* discovered one.
C3_StaticWinsExceptEndpoints ==
    \A i \in Ops :
        ConfigResolved(i) =>
          \A k \in (DOMAIN config) \cap (DOMAIN inv[i].discovered) :
              inv[i].oidcConfig[k] =
                  IF k \in EndpointKeys THEN inv[i].discovered[k] ELSE config[k]

\* C3 amended: every field the discovery document specifies resolves to the
\* discovered value, endpoint or not; the static value is kept for the fields
\* only the static config specifies.
C3_DiscoveredWins ==
    \A i \in Ops :
        ConfigResolved(i) =>
          /\ DOMAIN inv[i].oidcConfig =
                (DOMAIN config) \cup (DOMAIN inv[i].discovered)
          /\ \A k \in DOMAIN inv[i].discovered :
                inv[i].oidcConfig[k] = inv[i].discovered[k]
          /\ \A k \in (DOMAIN config) \ (DOMAIN inv[i].discovered) :
                inv[i].oidcConfig[k] = config[k]

\* The document publishes an issuer and a scope other than the static ones and
\* the resolved config carries the document's.
C3_Witness ==
    \E i \in Ops :
        /\ ConfigResolved(i)
        /\ Has(inv[i].discovered, "issuer")
        /\ inv[i].discovered.issuer # config.issuer
        /\ inv[i].oidcConfig.issuer = inv[i].discovered.issuer
        /\ Has(inv[i].discovered, "scope")
        /\ inv[i].discovered.scope # config.scope
        /\ inv[i].oidcConfig.scope = inv[i].discovered.scope

\* C4: the resolved authorization and token endpoints are the discovered ones,
\* also when the static config names endpoints, and a returned authorization
\* URL starts with the discovered authorization endpoint.
C4_EndpointsDiscovered ==
    \A i \in Ops :
        /\ ConfigResolved(i) =>
             /\ inv[i].oidcConfig.authorizationEndpoint =
                   inv[i].discovered.authorizationEndpoint
             /\ inv[i].oidcConfig.tokenEndpoint =
                   inv[i].discovered.tokenEndpoint
        /\ (i \in AuthorizationFrames /\ ReturnedUrl(i)) =>
             inv[i].result.url.endpoint =
                 inv[i].discovered.authorizationEndpoint

\* The static config names an authorization endpoint of its own and the URL
\* returned starts with the discovered one.
C4_Witness ==
    \E i \in AuthorizationFrames :
        /\ ReturnedUrl(i)
        /\ Has(config, "authorizationEndpoint")
        /\ inv[i].discovered.authorizationEndpoint # config.authorizationEndpoint
        /\ inv[i].result.url.endpoint = inv[i].discovered.authorizationEndpoint

Without(object, key) == [k \in (DOMAIN object) \ {key} |-> object[k]]

\* C5 as stated: the user info has email iff the email claim is present and
\* email_verified is true, phone iff the phone claim is present and
\* phone_verified is true.
C5_ContactIffPresentAndVerified ==
    \A i \in UserInfoFrames :
        ReturnedUserInfo(i) =>
          LET claims == inv[i].idToken.claims
              info == inv[i].result.userInfo
          IN  /\ Has(info, "email") <=>
                    (Has(claims, "email")
                       /\ TruthyBoolean(claims, "email_verified"))
              /\ Has(info, "phone") <=>
                    (Has(claims, "phone")
                       /\ TruthyBoolean(claims, "phone_verified"))

\* C5 amended: the user info has email (the claim's value) iff the email claim
\* is present and non-empty and email_verified is true, and likewise phone;
\* when the verified flag is false or absent the user info is the one of the
\* same claims with the email (phone) claim removed.
C5_ContactIffNonEmptyAndVerified ==
    \A i \in UserInfoFrames :
        ReturnedUserInfo(i) =>
          LET claims == inv[i].idToken.claims
              info == inv[i].result.userInfo
          IN  /\ Has(info, "email") <=>
                    (TruthyString(claims, "email")
                       /\ TruthyBoolean(claims, "email_verified"))
              /\ Has(info, "email") => info.email = claims.email
              /\ Has(info, "phone") <=>
                    (TruthyString(claims, "phone")
                       /\ TruthyBoolean(claims, "phone_verified"))
              /\ Has(info, "phone") => info.phone = claims.phone
              /\ ~TruthyBoolean(claims, "email_verified") =>
                    info = userInfo(Without(claims, "email"))
              /\ ~TruthyBoolean(claims, "phone_verified") =>
                    info = userInfo(Without(claims, "phone"))

\* An unverified email has been left out while a verified phone was kept.
C5_Witness ==
    \E i \in UserInfoFrames :
        /\ ReturnedUserInfo(i)
        /\ TruthyString(inv[i].idToken.claims, "email")
        /\ Has(inv[i].idToken.claims, "email_verified")
        /\ ~inv[i].idToken.claims.email_verified
        /\ ~Has(inv[i].result.userInfo, "email")
        /\ TruthyString(inv[i].idToken.claims, "phone")
        /\ TruthyBoolean(inv[i].idToken.claims, "phone_verified")
        /\ Has(inv[i].result.userInfo, "phone")

C7_NoncesDistinct ==
    /\ \A i, j \in AuthorizationFrames :
          (i # j /\ inv[i].nonce # "" /\ inv[j].nonce # "")
             => inv[i].nonce # inv[j].nonce
    /\ \A m, n \in DOMAIN store :
          m # n => store[m].nonce # store[n].nonce
    /\ \A i, j \in AuthorizationFrames :
          (i # j /\ ReturnedUrl(i) /\ ReturnedUrl(j))
             => Param(inv[i].result.url.query, K_nonce) #
                   Param(inv[j].result.url.query, K_nonce)

\* Two calls with identical inputs have both returned a URL.
C7_Witness ==
    \E i, j \in AuthorizationFrames :
        /\ i # j
        /\ ReturnedUrl(i) /\ ReturnedUrl(j)
        /\ inv[i].state = inv[j].state
        /\ inv[i].redirectUri = inv[j].redirectUri
        /\ inv[i].connectorId = inv[j].connectorId
        /\ Len(store) = 2

\* C8: getAuthorizationUrl calls setSession at most once, with exactly
\* { nonce, redirectUri, connectorId, state } made of the nonce it generated
\* and the caller's inputs; a URL is only returned once that session is in the
\* storage, and carries the session's nonce, state and redirect URI; when the
\* storage rejected the write the invocation ends with that error.
C8_SessionPersistedBeforeUrl ==
    \A i \in AuthorizationFrames :
        /\ Len(inv[i].sessionCalls) <= 1
        /\ inv[i].sessionCalls # <<>> =>
             SessionOf(i) = [nonce |-> inv[i].nonce,
                             redirectUri |-> inv[i].redirectUri,
                             connectorId |-> inv[i].connectorId,
                             state |-> inv[i].state]
        /\ ReturnedUrl(i) =>
             /\ inv[i].sessionCalls # <<>>
             /\ SessionOf(i) \in Range(store)
             /\ Param(inv[i].result.url.query, K_nonce) = SessionOf(i).nonce
             /\ Param(inv[i].result.url.query, K_state) = SessionOf(i).state
             /\ Param(inv[i].result.url.query, P_redirect_uri) =
                   SessionOf(i).redirectUri
        /\ (inv[i].pc = "done" /\ inv[i].sessionCalls # <<>>
              /\ SessionOf(i) \notin Range(store))
             => inv[i].result.type = "error"

\* One invocation returned its URL with the session stored, another one was
\* refused by the storage.
C8_Witness ==
    /\ \E i \in AuthorizationFrames :
          ReturnedUrl(i) /\ SessionOf(i) \in Range(store)
    /\ \E i \in AuthorizationFrames :
          /\ Threw(i, "SessionStorageError")
          /\ SessionOf(i) \notin Range(store)

\* C9: the query of a returned authorization URL consists of exactly the six
\* parameters state, nonce, client_id, response_type, redirect_uri and scope,
\* each once: response_type is 'code', client_id the configured client id,
\* state and redirect_uri the caller's inputs, scope the resolved scope.
C9_QueryParameters ==
    \A i \in AuthorizationFrames :
        ReturnedUrl(i) =>
          LET query == inv[i].result.url.query
          IN  /\ Len(query) = Cardinality(ParamNames(query))
              /\ ParamNames(query) =
                    {K_state, K_nonce, P_client_id, P_response_type,
                     P_redirect_uri, K_scope}
              /\ Param(query, P_response_type) = "code"
              /\ Param(query, P_client_id) = config.clientId
              /\ Param(query, K_state) = inv[i].state
              /\ Param(query, P_redirect_uri) = inv[i].redirectUri
              /\ Param(query, K_scope) = inv[i].oidcConfig.scope
              /\ Param(query, K_nonce) = inv[i].nonce

\* A URL has been returned whose scope is the one the provider published.
C9_Witness ==
    \E i \in AuthorizationFrames :
        /\ ReturnedUrl(i)
        /\ Param(inv[i].result.url.query, K_scope) # config.scope
        /\ Param(inv[i].result.url.query, P_client_id) = "c1"

\* C10: every token exchange of a getUserInfo invocation is sent with the
\* redirect URI of the connector session, which is the one the
\* getAuthorizationUrl invocation that stored the session was called with and
\* put in its URL.
C10_ExchangeRedirectUri ==
    \A i \in UserInfoFrames :
        \A n \in DOMAIN inv[i].tokenRequests :
            /\ inv[i].tokenRequests[n].redirectUri =
                  inv[i].connectorSession.redirectUri
            /\ \E j \in AuthorizationFrames :
                  /\ ReturnedUrl(j)
                  /\ SessionOf(j) = inv[i].connectorSession
                  /\ inv[j].redirectUri = inv[i].tokenRequests[n].redirectUri
                  /\ Param(inv[j].result.url.query, P_redirect_uri) =
                        inv[i].tokenRequests[n].redirectUri

\* An exchange has been sent for a callback whose payload names another
\* redirect URI than the session.
C10_Witness ==
    \E i \in UserInfoFrames :
        /\ inv[i].tokenRequests # <<>>
        /\ inv[i].data.redirectUri # inv[i].connectorSession.redirectUri

\* The frames a step has changed.
Stepped == { i \in Ops : inv'[i] # inv[i] }

\* C11: the storage is written at most once per getAuthorizationUrl invocation
\* (one setSession call, one stored session for each invocation that returned
\* a URL) and never by getUserInfo: a getUserInfo invocation makes no
\* setSession call and none of its steps, succeeding or failing, changes the
\* storage; the storage only grows by one session at a time, and no session
\* is stored twice.
C11_SessionWrittenOnce ==
    /\ [](/\ \A i \in Ops : Len(inv[i].sessionCalls) <= 1
          /\ \A i \in UserInfoFrames : inv[i].sessionCalls = <<>>
          /\ \A m, n \in DOMAIN store : m # n => store[m] # store[n]
          /\ Len(store) = Cardinality({ j \in AuthorizationFrames : ReturnedUrl(j) })
          /\ \A n \in DOMAIN store :
                \E j \in AuthorizationFrames :
                    ReturnedUrl(j) /\ SessionOf(j) = store[n])
    /\ [][/\ (\E i \in Stepped : inv'[i].method = "getUserInfo")
               => store' = store
          /\ store' # store =>
               /\ Len(store') = Len(store) + 1
               /\ \A n \in DOMAIN store : store'[n] = store[n]]_vars

\* A getUserInfo invocation has returned a user info and the storage still
\* holds the one session the authorization wrote.
C11_Witness ==
    /\ Len(store) = 1
    /\ \E i \in UserInfoFrames : ReturnedUserInfo(i)
    /\ \E j \in AuthorizationFrames : ReturnedUrl(j) /\ store = <<SessionOf(j)>>

\* C12 (as stated): a connector session is consumed once; a getUserInfo that is
\* called with a session after an earlier getUserInfo with that session has
\* settled does not return a user info.
C12_ConsumedOnce ==
    \A j \in UserInfoFrames : inv[j].replay => ~ReturnedUserInfo(j)

\* C12 (amended): the connector keeps no record of the sessions it has been
\* called with.  A getUserInfo called again with a session is settled like the
\* first one: it returns a user info exactly when the token it received verifies
\* against the nonce of that session, and the session is still in the storage.
C12_ReplayValidatedAlike ==
    \A j \in UserInfoFrames :
        /\ inv[j].connectorSession \in Range(store)
        /\ (HasToken(j) /\ inv[j].pc = "done") =>
             (ReturnedUserInfo(j) <=>
                getIdTokenClaims(inv[j].idToken, inv[j].oidcConfig,
                                 inv[j].connectorSession.nonce).ok)

\* Two getUserInfo invocations with the same session, the second called after
\* the first had returned its user info, have both returned a user info.
C12_Witness ==
    \E i, j \in UserInfoFrames :
        /\ i < j
        /\ inv[i].connectorSession = inv[j].connectorSession
        /\ inv[j].replay
        /\ ReturnedUserInfo(i)
        /\ ReturnedUserInfo(j)

\* What an invocation settles with when it runs alone, as a function of its
\* own arguments and of the answers it received: the discovery document, the
\* generated nonce, the token or the rejection of the exchange.  (The answer of
\* setSession is not kept in the frame, hence the two results after it.)
AloneConfig(i) == mergeOidcConfig(config, inv[i].discovered)
AloneResults(i) ==
    IF inv[i].method = "getAuthorizationUrl"
    THEN IF ~inv[i].setSession THEN { Throws("NotImplemented") }
         ELSE IF ~ConfigResolved(i) THEN { Throws("InvalidConfig") }
         ELSE { ReturnsUrl(authorizationUrl(
                    AloneConfig(i),
                    queryParameters(inv[i].state, inv[i].nonce, AloneConfig(i),
                                    inv[i].redirectUri))),
                Throws("SessionStorageError") }
    ELSE IF ~ConfigResolved(i) THEN { Throws("InvalidConfig") }
         ELSE IF inv[i].validations = 0 THEN { Throws(code) : code \in TokenErrors }
         ELSE { userInfoResult(getIdTokenClaims(inv[i].idToken, AloneConfig(i),
                                                inv[i].connectorSession.nonce)) }
AloneSession(i) ==
    sessionData(inv[i].nonce, inv[i].redirectUri, inv[i].connectorId, inv[i].state)

\* C13: however the invocations of different flows interleave at their awaits,
\* a step of one invocation changes no other invocation's frame and never the
\* static config, and every invocation settles with the result it has when run
\* alone on the same arguments and answers; the session of a getAuthorizationUrl
\* is in the storage exactly when it returned its URL.
C13_FlowsIndependent ==
    /\ [](\A i \in Ops :
            inv[i].pc = "done" =>
              /\ inv[i].result \in AloneResults(i)
              /\ inv[i].method = "getAuthorizationUrl" =>
                   (ReturnedUrl(i) <=> AloneSession(i) \in Range(store)))
    /\ [][config' = config /\ Cardinality(Stepped) <= 1]_vars

\* The callback of one flow is suspended on its token validation while the
\* getAuthorizationUrl of another flow, called after it, has stored its session
\* and returned its URL.
C13_Witness ==
    \E i \in UserInfoFrames, j \in AuthorizationFrames :
        /\ i < j
        /\ inv[i].pc = "getIdTokenClaims"
        /\ ReturnedUrl(j)
        /\ SessionOf(j) # inv[i].connectorSession
        /\ inv[j].discovered # inv[i].discovered

\* The invocation started the discovery fetch and settled without a document.
DiscoveryFailed(i) ==
    inv[i].pc = "done" /\ inv[i].fetches > 0 /\ ~ConfigResolved(i)

\* C14: an invocation whose discovery fetch failed throws InvalidConfig, and
\* an invocation that threw InvalidConfig made a single fetch, generated no
\* nonce, never called setSession (so it handed no session to the storage and
\* returned no URL) and never called the token exchange or the token
\* validation.
C14_DiscoveryFailureIsFinal ==
    \A i \in Ops :
        /\ DiscoveryFailed(i) => Threw(i, "InvalidConfig")
        /\ Threw(i, "InvalidConfig") =>
             /\ DiscoveryFailed(i)
             /\ inv[i].fetches = 1
             /\ inv[i].nonce = ""
             /\ inv[i].sessionCalls = <<>>
             /\ inv[i].tokenRequests = <<>>
             /\ inv[i].validations = 0

\* A getUserInfo and a getAuthorizationUrl have both failed on discovery.
C14_Witness ==
    /\ \E i \in UserInfoFrames : Threw(i, "InvalidConfig")
    /\ \E j \in AuthorizationFrames : Threw(j, "InvalidConfig")

UserInfoFields == {"id", "name", "avatar", "email", "phone"}

\* C15: every user info getUserInfo returns has an id, equal to the sub claim
\* of the verified token, and no field besides id, name, avatar, email and
\* phone, whatever other claims the token carries.
C15_OnlyMappedFields ==
    \A i \in UserInfoFrames :
        ReturnedUserInfo(i) =>
            /\ Has(inv[i].result.userInfo, "id")
            /\ inv[i].result.userInfo.id = inv[i].idToken.claims.sub
            /\ DOMAIN inv[i].result.userInfo \subseteq UserInfoFields

\* A user info has been returned for a token that carries a claim outside the
\* mapping together with all the mapped ones.
C15_Witness ==
    \E i \in UserInfoFrames :
        /\ ReturnedUserInfo(i)
        /\ Has(inv[i].idToken.claims, "locale")
        /\ DOMAIN inv[i].result.userInfo = UserInfoFields

\* The awaits of getUserInfo in program order, each followed by the next one
\* or by the end of the invocation.
UserInfoOrder ==
    { <<"idle", "getOidcConfig">>,
      <<"getOidcConfig", "fetchToken">>, <<"getOidcConfig", "done">>,
      <<"fetchToken", "getIdTokenClaims">>, <<"fetchToken", "done">>,
      <<"getIdTokenClaims", "done">> }

\* C16: a getUserInfo invocation goes through discovery fetch, token exchange,
\* token validation and claims mapping in this order.  The exchange is only
\* requested with a resolved config, the validation only runs on a token the
\* exchange returned, a user info is only returned for claims the validation
\* accepted; and an invocation that failed at one step threw that step's error
\* without having called any later step.
C16_StepsInOrder ==
    /\ [](\A i \in UserInfoFrames :
            /\ inv[i].tokenRequests # <<>> => ConfigResolved(i)
            /\ inv[i].validations > 0 =>
                 inv[i].tokenRequests # <<>> /\ inv[i].idToken # NoToken
            /\ ReturnedUserInfo(i) =>
                 /\ inv[i].validations > 0
                 /\ getIdTokenClaims(inv[i].idToken, inv[i].oidcConfig,
                                     inv[i].connectorSession.nonce).ok
            /\ inv[i].pc = "done" =>
                 /\ ~ConfigResolved(i) =>
                      /\ Threw(i, "InvalidConfig")
                      /\ inv[i].tokenRequests = <<>> /\ inv[i].validations = 0
                 /\ (ConfigResolved(i) /\ inv[i].idToken = NoToken) =>
                      /\ \E code \in TokenErrors : Threw(i, code)
                      /\ inv[i].validations = 0
                 /\ (inv[i].idToken # NoToken
                       /\ ~getIdTokenClaims(inv[i].idToken, inv[i].oidcConfig,
                                            inv[i].connectorSession.nonce).ok) =>
                      Threw(i, "InvalidIdToken"))
    /\ [][\A i \in Ops :
            (inv'[i].method = "getUserInfo" /\ inv'[i].pc # inv[i].pc) =>
                <<inv[i].pc, inv'[i].pc>> \in UserInfoOrder]_vars

\* One getUserInfo went through all four steps and returned a user info, one
\* failed at the exchange, after its discovery, and never validated a token.
C16_Witness ==
    \E i, j \in UserInfoFrames :
        /\ ReturnedUserInfo(i)
        /\ inv[i].fetches = 1 /\ Len(inv[i].tokenRequests) = 1
        /\ inv[i].validations = 1
        /\ ConfigResolved(j)
        /\ \E code \in TokenErrors : Threw(j, code)
        /\ inv[j].validations = 0

\* The invocation got past the assert and called getOidcConfig.
CalledGetOidcConfig(i) ==
    inv[i].pc # "idle" /\ ~Threw(i, "NotImplemented")

\* C17: every invocation that calls getOidcConfig makes exactly one discovery
\* fetch, and the config it goes on with is the static config merged with the
\* document of that very fetch: the URL is built on the authorization endpoint
\* and the exchange is sent to the token endpoint that this invocation was
\* answered with, whatever earlier invocations discovered.
C17_OwnDiscovery ==
    \A i \in Ops :
        /\ inv[i].fetches = (IF CalledGetOidcConfig(i) THEN 1 ELSE 0)
        /\ ConfigResolved(i) =>
             /\ inv[i].oidcConfig = mergeOidcConfig(config, inv[i].discovered)
             /\ ReturnedUrl(i) =>
                  inv[i].result.url.endpoint = inv[i].discovered.authorizationEndpoint
             /\ inv[i].method = "getUserInfo" =>
                  /\ Len(inv[i].tokenRequests) = 1
                  /\ inv[i].tokenRequests[1].tokenEndpoint =
                        inv[i].discovered.tokenEndpoint

\* The callback of a flow was answered with another discovery document than
\* the getAuthorizationUrl of that flow, and sent the exchange to the token
\* endpoint of its own document.
C17_Witness ==
    \E j \in AuthorizationFrames, i \in UserInfoFrames :
        /\ ReturnedUrl(j)
        /\ inv[i].connectorSession = SessionOf(j)
        /\ ConfigResolved(i)
        /\ inv[i].discovered # inv[j].discovered
        /\ inv[i].fetches = 1 /\ inv[j].fetches = 1
        /\ inv[i].tokenRequests[1].tokenEndpoint # inv[j].oidcConfig.tokenEndpoint

\* C18: a getUserInfo invocation sends at most one token exchange and runs at
\* most one token validation.  One that threw InvalidAuthCode or
\* InvalidAccessToken had sent its single exchange and validated nothing; one
\* that threw InvalidIdToken had sent one exchange and run one validation; and
\* an invocation that has settled takes no further step.
C18_NoRetry ==
    /\ [](\A i \in UserInfoFrames :
            /\ Len(inv[i].tokenRequests) <= 1
            /\ inv[i].validations <= 1
            /\ (\E code \in TokenErrors : Threw(i, code)) =>
                 Len(inv[i].tokenRequests) = 1 /\ inv[i].validations = 0
            /\ Threw(i, "InvalidIdToken") =>
                 Len(inv[i].tokenRequests) = 1 /\ inv[i].validations = 1
            /\ (inv[i].pc = "done" /\ inv[i].tokenRequests # <<>>
                  /\ ~ReturnedUserInfo(i)) =>
                 \E code \in TokenErrors \cup {"InvalidIdToken"} : Threw(i, code))
    /\ [][\A i \in Ops : inv[i].pc = "done" => inv'[i] = inv[i]]_vars

\* One getUserInfo has thrown the error of its exchange, another the error of
\* its validation.
C18_Witness ==
    \E i, j \in UserInfoFrames :
        /\ Threw(i, "InvalidAuthCode")
        /\ Len(inv[i].tokenRequests) = 1
        /\ Threw(j, "InvalidIdToken")
        /\ inv[j].validations = 1

\* C19: the user info getUserInfo returns has a name exactly when the name
\* claim is present and not empty, and then it is that claim; it has an avatar
\* exactly when the picture claim is present and not empty, and then it is that
\* claim.  The email_verified and phone_verified flags play no part.
C19_NameAndAvatar ==
    \A i \in UserInfoFrames :
        ReturnedUserInfo(i) =>
            LET claims == inv[i].idToken.claims
                info == inv[i].result.userInfo
            IN  /\ Has(info, "name") <=> TruthyString(claims, "name")
                /\ Has(info, "name") => info.name = claims.name
                /\ Has(info, "avatar") <=> TruthyString(claims, "picture")
                /\ Has(info, "avatar") => info.avatar = claims.picture

\* Name and picture have been forwarded from a token whose verified flags are
\* false or absent.
C19_Witness ==
    /\ \E i \in UserInfoFrames :
          /\ ReturnedUserInfo(i)
          /\ ~TruthyBoolean(inv[i].idToken.claims, "email_verified")
          /\ ~TruthyBoolean(inv[i].idToken.claims, "phone_verified")
          /\ Has(inv[i].result.userInfo, "name")
          /\ Has(inv[i].result.userInfo, "avatar")

====
